---- MODULE Spec2Model ----
(***************************************************************************)
(* Front end of the fraud-detection dashboard: the rule editor of the      *)
(* rules page (Frontend/app/(slides)/rules-config/page.tsx), the login     *)
(* and signup pages, the dashboard widgets, the dashboard filters and the  *)
(* pagination.  Every component has a specification of its own; a step of  *)
(* one component leaves the others alone.                                  *)
(*                                                                         *)
(* Rules page.                                                             *)

(* The page holds a draft rule (formData) and the id of the rule being     *)
(* edited (selectedRule).  Its handlers edit the draft, load a rule with   *)
(* GET /api/rules/{id} and submit the draft with POST /api/rules or        *)
(* PUT /api/rules/{id}.                                                    *)
(*                                                                         *)
(* Conventions.                                                            *)
(*  - priority and status are the two strings the page transforms          *)
(*    (charAt/toUpperCase/slice, toLowerCase): they are sequences of       *)
(*    one-character strings.  Every other string is only copied and is an  *)
(*    ordinary string.                                                     *)
(*  - A JavaScript object is a record; a property it lacks is a key that   *)
(*    is not in its DOMAIN.                                                *)
(*  - A JavaScript array is a sequence; JavaScript indices are 0-based,    *)
(*    so element index of the array is arr[index + 1].  An array hole is   *)
(*    the element Hole, the value undefined is the element Undefined.      *)
(***************************************************************************)
EXTENDS Integers, Sequences, FiniteSets, Bags, TLC

VARIABLES
    formData,      \* useState<FormData>: the draft in the editor
    selectedRule,  \* useState<string | null>: Null or the id under edit
    extraProps,    \* own properties of the formData.conditions array that are no array index
    pending,       \* bag of fetches whose response has not been handled yet
    request,       \* the HTTP request issued by the step just taken, or NoRequest
    invalidated,   \* TRUE iff the step just taken invalidated the 'rules' query
    loadedRule,    \* history: the id whose GET response filled the draft since the selection, or Null
    loading,       \* useState(false) of the login page and of the signup page
    authFetch,     \* per page: the body of the POST whose promise has not settled, or NoFetch
    alerted,       \* per page: the text of the last alert() shown, or NoAlert
    route,         \* the route the router shows
    queryResult,   \* per dashboard widget: the result object useQuery returns
    prevDataRef,   \* per dashboard widget: prevDataRef.current
    currentPage,   \* Pagination: the currentPage prop, the page the parent shows
    totalPages,    \* Pagination: the totalPages prop
    onPageChange,  \* Pagination: the pages passed to onPageChange by the step just taken
    filters,       \* dashboard page: useState<FiltersData>, the applied filters
    localFilters   \* Filters component: useState<FiltersData>(filters), the edited filters

\* The state of the rules page, of the login and signup pages, of the dashboard.
rulesVars == <<formData, selectedRule, extraProps, pending, request, invalidated>>
authVars == <<loading, authFetch, alerted, route>>
dashVars == <<queryResult, prevDataRef>>

pageVars == <<currentPage, totalPages, onPageChange>>
filterVars == <<filters, localFilters>>

vars == <<formData, selectedRule, extraProps, pending, request, invalidated,
          loadedRule, loading, authFetch, alerted, route, queryResult, prevDataRef,
          currentPage, totalPages, onPageChange, filters, localFilters>>

----------------------------------------------------------------------------
(* Bounds of the model. *)

\* Longest conditions array the model lets the editor build.
MaxConds == 2

\* Most fetches in flight at once.
MaxInFlight == 1

\* Most pages of a paginated list.
MaxPages == 12

----------------------------------------------------------------------------
(* Strings the page transforms, as sequences of characters. *)

LowerChars == <<"a","b","c","d","e","f","g","h","i","j","k","l","m",
                "n","o","p","q","r","s","t","u","v","w","x","y","z">>
UpperChars == <<"A","B","C","D","E","F","G","H","I","J","K","L","M",
                "N","O","P","Q","R","S","T","U","V","W","X","Y","Z">>

Empty == << >>
high == <<"h","i","g","h">>
medium == <<"m","e","d","i","u","m">>
low == <<"l","o","w">>
active == <<"a","c","t","i","v","e">>
inactive == <<"i","n","a","c","t","i","v","e">>
High == <<"H","i","g","h">>
Medium == <<"M","e","d","i","u","m">>
Low == <<"L","o","w">>
Active == <<"A","c","t","i","v","e">>
Inactive == <<"I","n","a","c","t","i","v","e">>

\* String.prototype.toUpperCase on one character.
ToUpperChar(c) ==
    IF \E i \in 1..Len(LowerChars) : LowerChars[i] = c
    THEN UpperChars[CHOOSE i \in 1..Len(LowerChars) : LowerChars[i] = c]
    ELSE c

\* String.prototype.toLowerCase on one character.
ToLowerChar(c) ==
    IF \E i \in 1..Len(UpperChars) : UpperChars[i] = c
    THEN LowerChars[CHOOSE i \in 1..Len(UpperChars) : UpperChars[i] = c]
    ELSE c

\* s.charAt(0): the first character, or "" when s is empty.
CharAt0(s) == IF Len(s) = 0 THEN Empty ELSE <<s[1]>>

\* s.toUpperCase()
ToUpperCase(s) == [i \in 1..Len(s) |-> ToUpperChar(s[i])]

\* s.toLowerCase()
ToLowerCase(s) == [i \in 1..Len(s) |-> ToLowerChar(s[i])]

\* s.slice(1)
Slice1(s) == IF Len(s) = 0 THEN Empty ELSE Tail(s)

\* Mutant of Capitalize: the whole string in upper case.
Capitalize_upperAll(s) == ToUpperCase(s)

\* s.charAt(0).toUpperCase() + s.slice(1)
Capitalize(s) == ToUpperCase(CharAt0(s)) \o Slice1(s)

----------------------------------------------------------------------------
(* JavaScript values. *)

Null == "null"

\* An array hole, and the value undefined, as array elements.
Hole == [hole |-> TRUE]
Undefined == [undefined |-> TRUE]

EmptyObject == [k \in {} |-> ""]

\* The keys of interface Condition.
ConditionKeys == {"field", "operator", "value"}

\* { ...obj }: the own properties of obj; none when obj is undefined.
Spread(obj) == IF obj = Hole \/ obj = Undefined THEN EmptyObject ELSE obj

\* Mutant of SpreadWith: the spread forgotten, { [key]: value }.
SpreadWith_noSpread(obj, key, value) == [k \in {key} |-> value]

\* { ...obj, [key]: value }
SpreadWith(obj, key, value) ==
    [k \in (DOMAIN Spread(obj)) \cup {key} |->
        IF k = key THEN value ELSE Spread(obj)[k]]

\* [...arr]: a dense copy, a hole read as undefined; no non-index property.
ArrayCopy(arr) ==
    [j \in 1..Len(arr) |-> IF arr[j] = Hole THEN Undefined ELSE arr[j]]

\* arr[index] read from a fresh copy: undefined outside 0..length-1.
ArrayGet(arr, index) ==
    IF index \in 0..(Len(arr) - 1) /\ arr[index + 1] # Hole
    THEN arr[index + 1]
    ELSE Undefined

\* The elements of arr after arr[index] = v.  A write at or past length
\* lengthens the array and leaves holes before it; a write at a negative
\* index sets a property and leaves the elements alone.
ArraySetElems(arr, index, v) ==
    IF index < 0 THEN arr
    ELSE IF index < Len(arr) THEN [arr EXCEPT ![index + 1] = v]
    ELSE arr \o [j \in 1..(index - Len(arr)) |-> Hole] \o <<v>>

\* The non-index properties of a fresh array after arr[index] = v.
ArraySetProps(index, v) ==
    IF index < 0 THEN [k \in {index} |-> v] ELSE EmptyObject

\* arr.filter((_, i) => i !== index): visits the positions in order, skips
\* holes, keeps the elements the callback accepts.  i is the position visited.
RECURSIVE FilterNotIndex(_, _, _)
FilterNotIndex(arr, index, i) ==
    IF i >= Len(arr) THEN << >>
    ELSE IF arr[i + 1] # Hole /\ i # index
         THEN <<arr[i + 1]>> \o FilterNotIndex(arr, index, i + 1)
         ELSE FilterNotIndex(arr, index, i + 1)

----------------------------------------------------------------------------
(* Constants of the page. *)

defaultConditions ==
    << [field |-> "amount", operator |-> "greater_than", value |-> "10000"],
       [field |-> "time", operator |-> "outside", value |-> "9:00-17:00"] >>

\* A new condition whose operator is a symbol and no option of the select.
NewCondition_symbolOperator == [field |-> "amount", operator |-> ">", value |-> ""]
\* The condition addCondition appends.
NewCondition == [field |-> "amount", operator |-> "greater_than", value |-> ""]

\* useState<FormData>(...): the draft the page starts with.
InitialFormData ==
    [name |-> "", description |-> "", priority |-> Empty, status |-> inactive,
     conditions |-> << >>, matchLogic |-> "all"]

\* An empty form without the default conditions.
EmptyFormData_noConditions ==
    [name |-> "", description |-> "", priority |-> Empty, status |-> inactive,
     conditions |-> << >>, matchLogic |-> "all"]
\* The draft Reset (no rule selected) and a successful create put in the editor.
EmptyFormData ==
    [name |-> "", description |-> "", priority |-> Empty, status |-> inactive,
     conditions |-> defaultConditions, matchLogic |-> "all"]

\* The options of the editor's selects.
PriorityOptions == {high, medium, low}
StatusOptions == {active, inactive}
FieldOptions == {"amount", "channel", "paymentMode", "location", "time"}
OperatorOptions == {"greater_than", "less_than", "equal_to", "contains", "outside", "within"}
MatchLogicOptions == {"all", "any"}

\* The ids of the rules the table lists.
ListedRuleIds == {"R001", "R002", "R003", "R004", "R005"}
----------------------------------------------------------------------------
(* Inputs of the handlers, drawn from small sets. *)

\* Ids of rows of the rules table (one of the sample rules).
RuleIds == {"R001"}

\* Text typed into the name, description and value inputs.
NameInputs == {"", "A"}
DescriptionInputs == {"", "d"}
ValueInputs == {"", "10000"}

\* Options picked in a condition's field and operator selects.
FieldInputs == {"time"}
OperatorInputs == {"outside"}

\* What updateCondition(index, field, value) can be called with from the
\* controls of a condition row.
AttrInputs ==
    {<<"field", v>> : v \in FieldInputs}
        \cup {<<"operator", v>> : v \in OperatorInputs}
        \cup {<<"value", v>> : v \in ValueInputs}

\* Bodies GET /api/rules/{id} can answer with: a rule with every field, a
\* rule as the rules table lists it (no conditions, no matchLogic), and an
\* object with none of the fields.
ServerDocs ==
    { [name |-> "A", description |-> "d", priority |-> High, status |-> Active,
       conditions |-> << [field |-> "amount", operator |-> "greater_than", value |-> "10000"] >>,
       matchLogic |-> "any"],
      [name |-> "A", description |-> "d", priority |-> Low, status |-> Inactive],
      EmptyObject }

----------------------------------------------------------------------------
(* Requests. *)

NoRequest == [method |-> "NONE"]

\* A fetch in flight: what its continuation needs to know.
Fetch(method, id) == [method |-> method, id |-> id]

InFlight == BagCardinality(pending)

\* A body in which the client names the rule.
ruleData_withId(form) ==
    [id |-> "R006",
     name |-> form.name,
     description |-> form.description,
     priority |-> Capitalize(form.priority),
     status |-> Capitalize(form.status),
     conditions |-> form.conditions,
     matchLogic |-> form.matchLogic]
\* A body that leaves out description and matchLogic.
ruleData_partial(form) ==
    [name |-> form.name,
     priority |-> Capitalize(form.priority),
     status |-> Capitalize(form.status),
     conditions |-> form.conditions]
\* The ruleData object the submit handler builds from the draft.
ruleData(form) ==
    [name |-> form.name,
     description |-> form.description,
     priority |-> Capitalize(form.priority),
     status |-> Capitalize(form.status),
     conditions |-> form.conditions,
     matchLogic |-> form.matchLogic]

\* x || d for a property of the fetched rule: d when the property is
\* missing or is the empty string.
OrDefault(doc, key, empty, d) ==
    IF key \in DOMAIN doc /\ doc[key] # empty THEN doc[key] ELSE d

\* doc.key || d, without the toLowerCase.
LowerOrDefault_noLower(doc, key, d) ==
    IF key \in DOMAIN doc /\ doc[key] # Empty THEN doc[key] ELSE d
\* doc.key?.toLowerCase() || d
LowerOrDefault(doc, key, d) ==
    IF key \in DOMAIN doc /\ ToLowerCase(doc[key]) # Empty
    THEN ToLowerCase(doc[key])
    ELSE d

\* The draft Reset builds from the fetched rule.  An empty conditions array
\* is truthy and is kept.
FromRuleData(doc) ==
    [name |-> OrDefault(doc, "name", "", ""),
     description |-> OrDefault(doc, "description", "", ""),
     priority |-> LowerOrDefault(doc, "priority", medium),
     status |-> LowerOrDefault(doc, "status", inactive),
     conditions |-> IF "conditions" \in DOMAIN doc THEN doc.conditions ELSE defaultConditions,
     matchLogic |-> OrDefault(doc, "matchLogic", "", "all")]

----------------------------------------------------------------------------
(* The login page (Frontend/app/page.tsx) and the signup page: one         *)
(* instance of each, every instance in a window of its own.                *)

Pages == {"login", "signup"}

\* No POST of the page is waiting for its promise to settle.
NoFetch == [url |-> "NONE"]

\* No alert() was shown yet.
NoAlert == "none"

\* What the user typed in the forms; every input is `required`.
EmailInputs == {"a@fdam.io", "b@fdam.io"}
PasswordInputs == {"pw", "qw"}
NameFieldInputs == {"Ann"}

----------------------------------------------------------------------------
(* The dashboard widgets: SummaryCards, DimensionalAnalysis,               *)
(* TimeSeriesAnalysis and EvaluationMetrics, named by their query keys.    *)

Widgets == {"dashboardSummary", "dashboardDimensional", "dashboardTimeSeries", "dashboardEvaluation"}

\* queryResult.data and prevDataRef.current before any fetch succeeded.
NoData == "undefined"

\* The bodies a dashboard endpoint answers with.
DataValues == {"d1", "d2"}

\* The result of useQuery at the first render: nothing cached, the fetch started.
InitialQueryResult == [status |-> "pending", fetchStatus |-> "fetching", data |-> NoData]

----------------------------------------------------------------------------
(* The dashboard filters (Filters component and the dashboard page).  A    *)
(* Date is known by its month, counted from some month 0.                  *)

Date(month) == [month |-> month]

\* new Date(new Date().setMonth(new Date().getMonth() - 1)) evaluated at now.
MonthBefore(now) == Date(now.month - 1)

\* new Date() when the dashboard page is constructed.
MountDate == Date(1)

\* useState<FiltersData>(...) of the dashboard page.
InitialFilters ==
    [startDate |-> MonthBefore(MountDate), endDate |-> MountDate,
     payerId |-> "", payeeId |-> "", searchQuery |-> ""]
----------------------------------------------------------------------------
(* The state after construction. *)

Init ==
    /\ formData = InitialFormData
    /\ selectedRule = Null
    /\ extraProps = EmptyObject
    /\ pending = EmptyBag
    /\ request = NoRequest
    /\ invalidated = FALSE
    /\ loadedRule = Null
    /\ loading = [p \in Pages |-> FALSE]
    /\ authFetch = [p \in Pages |-> NoFetch]
    /\ alerted = [p \in Pages |-> NoAlert]
    /\ route = "/"
    /\ queryResult = [w \in Widgets |-> InitialQueryResult]
    /\ prevDataRef = [w \in Widgets |-> NoData]
    /\ currentPage = 1
    /\ totalPages = 1
    /\ onPageChange = {}
    /\ filters = InitialFilters
    /\ localFilters = filters

\* A step that issues no request and invalidates no query.
Quiet == request' = NoRequest /\ invalidated' = FALSE

----------------------------------------------------------------------------
(* Handlers of the form's inputs: setFormData({...formData, key: value}).   *)
(* The conditions array object is kept.                                    *)

SetName(v) ==
    /\ formData' = [formData EXCEPT !.name = v]
    /\ UNCHANGED <<selectedRule, extraProps, pending>>
    /\ Quiet

SetDescription(v) ==
    /\ formData' = [formData EXCEPT !.description = v]
    /\ UNCHANGED <<selectedRule, extraProps, pending>>
    /\ Quiet

SetPriority(v) ==
    /\ formData' = [formData EXCEPT !.priority = v]
    /\ UNCHANGED <<selectedRule, extraProps, pending>>
    /\ Quiet

SetStatus(v) ==
    /\ formData' = [formData EXCEPT !.status = v]
    /\ UNCHANGED <<selectedRule, extraProps, pending>>
    /\ Quiet

SetMatchLogic(v) ==
    /\ formData' = [formData EXCEPT !.matchLogic = v]
    /\ UNCHANGED <<selectedRule, extraProps, pending>>
    /\ Quiet

----------------------------------------------------------------------------
(* The condition operations. *)

\* newConditions of updateCondition, after the assignment to newConditions[index].
updatedConditions(conditions, index, field, value) ==
    ArraySetElems(ArrayCopy(conditions), index,
                  SpreadWith(ArrayGet(ArrayCopy(conditions), index), field, value))

\* Mutant of removedConditions: the index taken as 1-based.
removedConditions_offByOne(conditions, index) == FilterNotIndex(conditions, index + 1, 0)

\* newConditions of removeCondition.
removedConditions(conditions, index) == FilterNotIndex(conditions, index, 0)

\* Mutant of addedConditions: the new condition put first.
addedConditions_prepend(conditions) == <<NewCondition>> \o ArrayCopy(conditions)

\* The conditions array addCondition builds.
addedConditions(conditions) == ArrayCopy(conditions) \o <<NewCondition>>

updateCondition(index, field, value) ==
    /\ index < MaxConds
    /\ UNCHANGED <<selectedRule, pending>>
    /\ Quiet
    /\ formData' = [formData EXCEPT
                      !.conditions = updatedConditions(formData.conditions, index, field, value)]
    /\ extraProps' = ArraySetProps(index,
                        SpreadWith(ArrayGet(ArrayCopy(formData.conditions), index), field, value))

removeCondition(index) ==
    /\ UNCHANGED <<selectedRule, pending>>
    /\ Quiet
    /\ formData' = [formData EXCEPT !.conditions = removedConditions(formData.conditions, index)]
    /\ extraProps' = EmptyObject

\* An addCondition that also selects "any" as the match logic.
addCondition_setsMatchLogic ==
    /\ Len(formData.conditions) < MaxConds
    /\ UNCHANGED <<selectedRule, pending>>
    /\ Quiet
    /\ formData' = [formData EXCEPT !.conditions = addedConditions(formData.conditions),
                                    !.matchLogic = "any"]
    /\ extraProps' = EmptyObject
addCondition ==
    /\ Len(formData.conditions) < MaxConds
    /\ UNCHANGED <<selectedRule, pending>>
    /\ Quiet
    /\ formData' = [formData EXCEPT !.conditions = addedConditions(formData.conditions)]
    /\ extraProps' = EmptyObject

----------------------------------------------------------------------------
(* Selection. *)

\* An Edit button that also fetches the rule it selects.
Edit_fetchesRule(id) ==
    /\ InFlight < MaxInFlight
    /\ selectedRule' = id
    /\ pending' = pending (+) SetToBag({Fetch("GET", id)})
    /\ request' = [method |-> "GET", id |-> id]
    /\ invalidated' = FALSE
    /\ UNCHANGED <<formData, extraProps>>
\* Edit button of a row of the rules table.
Edit(id) ==
    /\ selectedRule' = id
    /\ UNCHANGED <<formData, extraProps, pending>>
    /\ Quiet

Cancel ==
    /\ selectedRule' = Null
    /\ UNCHANGED <<formData, extraProps, pending>>
    /\ Quiet

----------------------------------------------------------------------------
(* Reset. *)

\* Reset with a rule selected: fetch the rule again.
ResetSelected ==
    /\ selectedRule # Null
    /\ InFlight < MaxInFlight
    /\ pending' = pending (+) SetToBag({Fetch("GET", selectedRule)})
    /\ request' = [method |-> "GET", id |-> selectedRule]
    /\ invalidated' = FALSE
    /\ UNCHANGED <<formData, selectedRule, extraProps>>

\* Reset with no rule selected: the empty form with the default conditions.
ResetEmpty ==
    /\ selectedRule = Null
    /\ formData' = EmptyFormData
    /\ extraProps' = EmptyObject
    /\ UNCHANGED <<selectedRule, pending>>
    /\ Quiet

Reset == ResetSelected \/ ResetEmpty

\* The fetched rule arrives: res.json() resolves with doc and the draft is
\* replaced.  The status of the response is not looked at.
ResetLoaded(id, doc) ==
    /\ BagIn(Fetch("GET", id), pending)
    /\ pending' = pending (-) SetToBag({Fetch("GET", id)})
    /\ formData' = FromRuleData(doc)
    /\ extraProps' = EmptyObject
    /\ UNCHANGED selectedRule
    /\ Quiet

\* The fetch is rejected or the body is no JSON: no handler runs.
ResetFailed(id) ==
    /\ BagIn(Fetch("GET", id), pending)
    /\ pending' = pending (-) SetToBag({Fetch("GET", id)})
    /\ UNCHANGED <<formData, selectedRule, extraProps>>
    /\ Quiet

----------------------------------------------------------------------------
(* Submit: the Create Rule / Update Rule button. *)

SubmitUpdate ==
    /\ selectedRule # Null
    /\ InFlight < MaxInFlight
    /\ pending' = pending (+) SetToBag({Fetch("PUT", selectedRule)})
    /\ request' = [method |-> "PUT", id |-> selectedRule, body |-> ruleData(formData)]
    /\ invalidated' = FALSE
    /\ UNCHANGED <<formData, selectedRule, extraProps>>

SubmitCreate ==
    /\ selectedRule = Null
    /\ InFlight < MaxInFlight
    /\ pending' = pending (+) SetToBag({Fetch("POST", Null)})
    /\ request' = [method |-> "POST", id |-> Null, body |-> ruleData(formData)]
    /\ invalidated' = FALSE
    /\ UNCHANGED <<formData, selectedRule, extraProps>>

Submit == SubmitUpdate \/ SubmitCreate

\* A PUT handler that also puts the empty form in the editor, as the POST
\* handler does.
UpdateResponse_resetsForm(id, ok) ==
    /\ BagIn(Fetch("PUT", id), pending)
    /\ pending' = pending (-) SetToBag({Fetch("PUT", id)})
    /\ selectedRule' = IF ok THEN Null ELSE selectedRule
    /\ formData' = IF ok THEN EmptyFormData ELSE formData
    /\ invalidated' = ok
    /\ request' = NoRequest
    /\ UNCHANGED extraProps
\* A PUT handler that takes every response for a success.
UpdateResponse_ignoresOk(id, ok) ==
    /\ BagIn(Fetch("PUT", id), pending)
    /\ pending' = pending (-) SetToBag({Fetch("PUT", id)})
    /\ selectedRule' = Null
    /\ invalidated' = TRUE
    /\ request' = NoRequest
    /\ UNCHANGED <<formData, extraProps>>
\* The response to a PUT.  ok is response.ok; a rejected fetch runs no
\* handler and is the case ok = FALSE.
UpdateResponse(id, ok) ==
    /\ BagIn(Fetch("PUT", id), pending)
    /\ pending' = pending (-) SetToBag({Fetch("PUT", id)})
    /\ selectedRule' = IF ok THEN Null ELSE selectedRule
    /\ invalidated' = ok
    /\ request' = NoRequest
    /\ UNCHANGED <<formData, extraProps>>

\* The response to a POST.
CreateResponse(ok) ==
    /\ BagIn(Fetch("POST", Null), pending)
    /\ pending' = pending (-) SetToBag({Fetch("POST", Null)})
    /\ formData' = IF ok THEN EmptyFormData ELSE formData
    /\ extraProps' = IF ok THEN EmptyObject ELSE extraProps
    /\ invalidated' = ok
    /\ request' = NoRequest
    /\ UNCHANGED selectedRule

----------------------------------------------------------------------------
(* The page: every handler, called the way its controls call it.  A        *)
(* condition row exists for each element of the conditions array, so       *)
(* updateCondition and removeCondition get the index of an element.        *)

RowIndices == 0..(Len(formData.conditions) - 1)

\* A step of the rules page leaves the other pages alone; the history
\* variable loadedRule is kept by SpecHistory only.
RulesFrame ==
    UNCHANGED <<loadedRule, loading, authFetch, alerted, route, queryResult, prevDataRef,
                pageVars, filterVars>>

Next ==
    \/ \E v \in NameInputs : SetName(v) /\ RulesFrame
    \/ \E v \in DescriptionInputs : SetDescription(v) /\ RulesFrame
    \/ \E v \in PriorityOptions : SetPriority(v) /\ RulesFrame
    \/ \E v \in StatusOptions : SetStatus(v) /\ RulesFrame
    \/ \E v \in MatchLogicOptions : SetMatchLogic(v) /\ RulesFrame
    \/ \E index \in RowIndices, a \in AttrInputs : updateCondition(index, a[1], a[2]) /\ RulesFrame
    \/ \E index \in RowIndices : removeCondition(index) /\ RulesFrame
    \/ addCondition /\ RulesFrame
    \/ \E id \in RuleIds : Edit(id) /\ RulesFrame
    \/ Cancel /\ RulesFrame
    \/ Reset /\ RulesFrame
    \/ \E id \in RuleIds, doc \in ServerDocs : ResetLoaded(id, doc) /\ RulesFrame
    \/ \E id \in RuleIds : ResetFailed(id) /\ RulesFrame
    \/ Submit /\ RulesFrame
    \/ \E id \in RuleIds, ok \in BOOLEAN : UpdateResponse(id, ok) /\ RulesFrame
    \/ \E ok \in BOOLEAN : CreateResponse(ok) /\ RulesFrame

Spec == Init /\ [][Next]_vars

----------------------------------------------------------------------------
(* The condition operations called directly, with any index: the positions *)
(* of the array, the position before the first and the two after the last. *)

IndexInputs == (-1)..(Len(formData.conditions) + 1)

NextOps ==
    \/ \E index \in IndexInputs, a \in AttrInputs : updateCondition(index, a[1], a[2]) /\ RulesFrame
    \/ \E index \in IndexInputs : removeCondition(index) /\ RulesFrame
    \/ addCondition /\ RulesFrame
    \/ \E v \in PriorityOptions : SetPriority(v) /\ RulesFrame

SpecOps == Init /\ [][NextOps]_vars

----------------------------------------------------------------------------
(* The page with a history variable: loadedRule is the id of the rule     *)
(* whose GET response filled the draft since the selection last changed    *)
(* and since the draft was last replaced by the empty form; Null when the  *)
(* draft in the editor has no such origin.                                 *)

HistoryFrame ==
    UNCHANGED <<loading, authFetch, alerted, route, queryResult, prevDataRef,
                pageVars, filterVars>>

\* The handlers that edit the draft in place or only start or drop a call.
EditsInPlace ==
    \/ \E v \in NameInputs : SetName(v)
    \/ \E v \in DescriptionInputs : SetDescription(v)
    \/ \E v \in PriorityOptions : SetPriority(v)
    \/ \E v \in StatusOptions : SetStatus(v)
    \/ \E v \in MatchLogicOptions : SetMatchLogic(v)
    \/ \E index \in RowIndices, a \in AttrInputs : updateCondition(index, a[1], a[2])
    \/ \E index \in RowIndices : removeCondition(index)
    \/ addCondition
    \/ ResetSelected
    \/ \E id \in RuleIds : ResetFailed(id)
    \/ Submit
    \/ \E id \in RuleIds : UpdateResponse(id, FALSE)
    \/ CreateResponse(FALSE)

NextHistory ==
    \/ EditsInPlace /\ UNCHANGED loadedRule /\ HistoryFrame
    \/ \E id \in RuleIds :
          Edit(id) /\ loadedRule' = (IF id = selectedRule THEN loadedRule ELSE Null) /\ HistoryFrame
    \/ Cancel /\ loadedRule' = Null /\ HistoryFrame
    \/ ResetEmpty /\ loadedRule' = Null /\ HistoryFrame
    \/ \E id \in RuleIds, doc \in ServerDocs :
          ResetLoaded(id, doc) /\ loadedRule' = id /\ HistoryFrame
    \/ \E id \in RuleIds : UpdateResponse(id, TRUE) /\ loadedRule' = Null /\ HistoryFrame
    \/ CreateResponse(TRUE) /\ loadedRule' = Null /\ HistoryFrame

SpecHistory == Init /\ [][NextHistory]_vars
----------------------------------------------------------------------------
(* Login (Frontend/app/page.tsx) and signup: onSubmit runs to its await in *)
(* one step; what follows the await runs when the promise of fetch is      *)
(* fulfilled.  When the promise is rejected the await throws and the rest  *)
(* of onSubmit does not run: neither page has a try or a catch.            *)

\* The POST bodies.
LoginBody(email, password) == [username |-> email, password |-> password]

SignupBody(name, email, password) ==
    [email |-> email, full_name |-> name, is_recruiter |-> FALSE, password |-> password]

\* A login form whose submit button is never disabled.
LoginSubmit_neverDisabled(email, password) ==
    /\ route = "/"
    /\ loading' = [loading EXCEPT !["login"] = TRUE]
    /\ authFetch' = [authFetch EXCEPT !["login"] =
                        [url |-> "/api/v1/auth/login", body |-> LoginBody(email, password)]]
    /\ UNCHANGED <<alerted, route>>
\* Login: the form is submitted.  The submit button is disabled while
\* loading, and the page is gone once the router shows the dashboard.
LoginSubmit(email, password) ==
    /\ route = "/"
    /\ ~loading["login"]
    /\ loading' = [loading EXCEPT !["login"] = TRUE]
    /\ authFetch' = [authFetch EXCEPT !["login"] =
                        [url |-> "/api/v1/auth/login", body |-> LoginBody(email, password)]]
    /\ UNCHANGED <<alerted, route>>

\* Login: the response arrived; ok is res.ok.
LoginResolved(ok) ==
    /\ authFetch["login"] # NoFetch
    /\ authFetch' = [authFetch EXCEPT !["login"] = NoFetch]
    /\ loading' = [loading EXCEPT !["login"] = FALSE]
    /\ alerted' = [alerted EXCEPT !["login"] = IF ok THEN "Logged in" ELSE "Login failed"]
    /\ route' = IF ok THEN "/dashboard" ELSE route

\* Login: fetch rejected (no connection, DNS, CORS).
LoginRejected ==
    /\ authFetch["login"] # NoFetch
    /\ authFetch' = [authFetch EXCEPT !["login"] = NoFetch]
    /\ UNCHANGED <<loading, alerted, route>>

\* Signup: the form is submitted.
SignupSubmit(name, email, password) ==
    /\ ~loading["signup"]
    /\ loading' = [loading EXCEPT !["signup"] = TRUE]
    /\ authFetch' = [authFetch EXCEPT !["signup"] =
                        [url |-> "/api/v1/auth/register", body |-> SignupBody(name, email, password)]]
    /\ UNCHANGED <<alerted, route>>

\* Signup: the response arrived.
SignupResolved(ok) ==
    /\ authFetch["signup"] # NoFetch
    /\ authFetch' = [authFetch EXCEPT !["signup"] = NoFetch]
    /\ loading' = [loading EXCEPT !["signup"] = FALSE]
    /\ alerted' = [alerted EXCEPT !["signup"] = IF ok THEN "Signed up" ELSE "Signup failed"]
    /\ UNCHANGED route

\* Signup: fetch rejected.
SignupRejected ==
    /\ authFetch["signup"] # NoFetch
    /\ authFetch' = [authFetch EXCEPT !["signup"] = NoFetch]
    /\ UNCHANGED <<loading, alerted, route>>

\* A step of the login or signup page leaves the other pages alone.
AuthFrame ==
    UNCHANGED <<formData, selectedRule, extraProps, pending, request, invalidated,
                loadedRule, queryResult, prevDataRef, pageVars, filterVars>>

\* The promise of a started fetch settles: fulfilled with a response, or rejected.
LoginSettled == ((\E ok \in BOOLEAN : LoginResolved(ok)) \/ LoginRejected) /\ AuthFrame

SignupSettled == ((\E ok \in BOOLEAN : SignupResolved(ok)) \/ SignupRejected) /\ AuthFrame

NextAuth ==
    \/ \E email \in EmailInputs, password \in PasswordInputs :
          LoginSubmit(email, password) /\ AuthFrame
    \/ \E ok \in BOOLEAN : LoginResolved(ok) /\ AuthFrame
    \/ LoginRejected /\ AuthFrame
    \/ \E name \in NameFieldInputs, email \in EmailInputs, password \in PasswordInputs :
          SignupSubmit(name, email, password) /\ AuthFrame
    \/ \E ok \in BOOLEAN : SignupResolved(ok) /\ AuthFrame
    \/ SignupRejected /\ AuthFrame

SpecAuth == Init /\ [][NextAuth]_vars

\* Every started fetch settles; nothing makes the user press a button.
SpecAuthFair == SpecAuth /\ WF_vars(LoginSettled) /\ WF_vars(SignupSettled)
----------------------------------------------------------------------------
(* The dashboard widgets.  Each calls useQuery of @tanstack/react-query    *)
(* with a query key of its own and renders from the result: the skeleton,  *)
(* the error view with its Retry button, or the data.  The result object   *)
(* follows the library: a fetch that starts sets fetchStatus to fetching   *)
(* and, only when the query has no data yet, puts status back to pending;  *)
(* a success stores the data; a failure (the query function throws: the    *)
(* response is not ok, or fetch is rejected) sets status to error and      *)
(* keeps the data.                                                         *)

isFetching(q) == q.fetchStatus = "fetching"

isLoading(q) == q.status = "pending" /\ isFetching(q)

isError(q) == q.status = "error"

\* const data = queryResult.data ?? prevDataRef.current
WidgetData(w) ==
    IF queryResult[w].data # NoData THEN queryResult[w].data ELSE prevDataRef[w]

\* A render that shows the data whenever there is some, and the error
\* view only without data.
View_dataFirst(w) ==
    IF WidgetData(w) # NoData THEN "data"
    ELSE IF isLoading(queryResult[w]) THEN "skeleton"
    ELSE IF isError(queryResult[w]) THEN "error"
    ELSE "data"
\* What the widget returns from its render.
View(w) ==
    IF isLoading(queryResult[w]) /\ WidgetData(w) = NoData THEN "skeleton"
    ELSE IF isError(queryResult[w]) THEN "error"
    ELSE "data"

\* The render after the result changed to q: prevDataRef.current is set
\* when no fetch is running and there is data.
Rendered(w, q) ==
    prevDataRef' = [prevDataRef EXCEPT ![w] =
                       IF ~isFetching(q) /\ q.data # NoData THEN q.data ELSE @]

\* The result once a fetch has started.
fetchState(q) ==
    [status |-> IF q.data = NoData THEN "pending" ELSE q.status,
     fetchStatus |-> "fetching",
     data |-> q.data]

\* The endpoint answered 2xx with body d.
FetchSucceeded(w, d) ==
    /\ isFetching(queryResult[w])
    /\ queryResult' = [queryResult EXCEPT ![w] =
                          [status |-> "success", fetchStatus |-> "idle", data |-> d]]
    /\ Rendered(w, queryResult'[w])

\* The query function threw.
FetchFailed(w) ==
    /\ isFetching(queryResult[w])
    /\ queryResult' = [queryResult EXCEPT ![w] =
                          [status |-> "error", fetchStatus |-> "idle", data |-> @.data]]
    /\ Rendered(w, queryResult'[w])

\* The Retry button of the error view: queryResult.refetch().
Retry(w) ==
    /\ View(w) = "error"
    /\ queryResult' = [queryResult EXCEPT ![w] = fetchState(@)]
    /\ Rendered(w, queryResult'[w])

\* A refetch the library starts itself: the window gets the focus again,
\* or the widget is mounted again when its tab is opened.
Refetch(w) ==
    /\ ~isFetching(queryResult[w])
    /\ queryResult' = [queryResult EXCEPT ![w] = fetchState(@)]
    /\ Rendered(w, queryResult'[w])

\* A step of a widget leaves the other pages alone.
DashFrame ==
    UNCHANGED <<formData, selectedRule, extraProps, pending, request, invalidated,
                loadedRule, loading, authFetch, alerted, route, pageVars, filterVars>>

NextDash ==
    \/ \E w \in Widgets, d \in DataValues : FetchSucceeded(w, d) /\ DashFrame
    \/ \E w \in Widgets : FetchFailed(w) /\ DashFrame
    \/ \E w \in Widgets : Retry(w) /\ DashFrame
    \/ \E w \in Widgets : Refetch(w) /\ DashFrame

SpecDash == Init /\ [][NextDash]_vars
----------------------------------------------------------------------------
(* Pagination (Frontend/components/ui/Pagination.tsx).  The component has  *)
(* no state: currentPage and totalPages are props.  The parent shows the   *)
(* page it is handed by onPageChange.                                      *)

\* disabled={currentPage === 1}
PreviousDisabled == currentPage = 1

\* A Next button that is never disabled.
NextDisabled_never == FALSE

\* disabled={currentPage === totalPages}
NextDisabled == currentPage = totalPages

\* The parent renders the component with these props.
Mount(current, total) ==
    /\ currentPage' = current
    /\ totalPages' = total
    /\ onPageChange' = {}

\* The Previous button.
PreviousPage ==
    /\ ~PreviousDisabled
    /\ onPageChange' = {currentPage - 1}
    /\ currentPage' = currentPage - 1
    /\ UNCHANGED totalPages

\* The Next button; pages are counted up to MaxPages + 1.
NextPage ==
    /\ ~NextDisabled
    /\ currentPage <= MaxPages
    /\ onPageChange' = {currentPage + 1}
    /\ currentPage' = currentPage + 1
    /\ UNCHANGED totalPages

\* A step of the pagination leaves the other components alone.
PageFrame ==
    UNCHANGED <<formData, selectedRule, extraProps, pending, request, invalidated,
                loadedRule, loading, authFetch, alerted, route, queryResult, prevDataRef,
                filterVars>>

\* Pagination over a list with at least one page, started on one of its pages.
NextPagination ==
    \/ \E total \in 1..MaxPages : \E current \in 1..total : Mount(current, total) /\ PageFrame
    \/ PreviousPage /\ PageFrame
    \/ NextPage /\ PageFrame

SpecPagination == Init /\ [][NextPagination]_vars

\* Pagination with any props: an empty list has totalPages = 0, and the
\* parent may show a page past the last one.
NextPaginationAny ==
    \/ \E total \in 0..MaxPages, current \in 1..(MaxPages + 1) : Mount(current, total) /\ PageFrame
    \/ PreviousPage /\ PageFrame
    \/ NextPage /\ PageFrame

SpecPaginationAny == Init /\ [][NextPaginationAny]_vars
----------------------------------------------------------------------------
(* The Filters component: its inputs edit localFilters, Apply Filters and  *)
(* Clear Filters call the parent's setFilters.                             *)

\* What the user picks and types.
DateInputs == {Date(2), Undefined}
SearchInputs == {"", "T1"}
PayerOptions == {"all", "P1234", "P5678"}
PayeeOptions == {"all", "M1234", "M5678"}
PayerInputs == {"all", "P1234"}
PayeeInputs == {"all", "M1234"}

\* new Date() when Clear Filters is pressed.
ClearDates == {Date(1), Date(2)}

\* onSelect of the two DatePickers, onChange of the search input,
\* onValueChange of the two selects.
SetStartDate(date) ==
    /\ localFilters' = [localFilters EXCEPT !.startDate = date]
    /\ UNCHANGED filters

SetEndDate(date) ==
    /\ localFilters' = [localFilters EXCEPT !.endDate = date]
    /\ UNCHANGED filters

SetSearchQuery(value) ==
    /\ localFilters' = [localFilters EXCEPT !.searchQuery = value]
    /\ UNCHANGED filters

SetPayerId(value) ==
    /\ localFilters' = [localFilters EXCEPT !.payerId = value]
    /\ UNCHANGED filters

SetPayeeId(value) ==
    /\ localFilters' = [localFilters EXCEPT !.payeeId = value]
    /\ UNCHANGED filters

applyFilters ==
    /\ filters' = localFilters
    /\ UNCHANGED localFilters

\* The object clearFilters builds at the date now.
cleared(now) ==
    [startDate |-> MonthBefore(now), endDate |-> now,
     payerId |-> "all", payeeId |-> "all", searchQuery |-> ""]

\* A clearFilters that forgets to call the parent's setFilters.
clearFilters_localOnly(now) ==
    /\ localFilters' = cleared(now)
    /\ UNCHANGED filters

clearFilters(now) ==
    /\ localFilters' = cleared(now)
    /\ filters' = cleared(now)

\* A step of the filters leaves the other components alone.
FilterFrame ==
    UNCHANGED <<formData, selectedRule, extraProps, pending, request, invalidated,
                loadedRule, loading, authFetch, alerted, route, queryResult, prevDataRef,
                pageVars>>

\* An edit of one of the five inputs.
FilterEdit ==
    \/ \E date \in DateInputs : SetStartDate(date)
    \/ \E date \in DateInputs : SetEndDate(date)
    \/ \E value \in SearchInputs : SetSearchQuery(value)
    \/ \E value \in PayerInputs : SetPayerId(value)
    \/ \E value \in PayeeInputs : SetPayeeId(value)

NextFilters ==
    \/ \E date \in DateInputs : SetStartDate(date) /\ FilterFrame
    \/ \E date \in DateInputs : SetEndDate(date) /\ FilterFrame
    \/ \E value \in SearchInputs : SetSearchQuery(value) /\ FilterFrame
    \/ \E value \in PayerInputs : SetPayerId(value) /\ FilterFrame
    \/ \E value \in PayeeInputs : SetPayeeId(value) /\ FilterFrame
    \/ applyFilters /\ FilterFrame
    \/ \E now \in ClearDates : clearFilters(now) /\ FilterFrame

SpecFilters == Init /\ [][NextFilters]_vars
----------------------------------------------------------------------------
(* Properties. *)

\* A request that submits the draft.
IsSubmit(r) == r.method \in {"POST", "PUT"}

\* The display form of each option of the priority and status selects.
DisplayForm(s) ==
    CASE s = high -> High
      [] s = medium -> Medium
      [] s = low -> Low
      [] s = active -> Active
      [] s = inactive -> Inactive

\* The draft apart from its conditions, and the selection, are the same
\* before and after a step.
RestUnchanged ==
    /\ formData'.name = formData.name
    /\ formData'.description = formData.description
    /\ formData'.priority = formData.priority
    /\ formData'.status = formData.status
    /\ formData'.matchLogic = formData.matchLogic
    /\ selectedRule' = selectedRule

\* C1: a step taken while the draft's name is the empty string sends no
\* POST and no PUT: submitting such a draft is refused.
C1_EmptyNameNotSubmitted ==
    [][formData.name = "" => ~IsSubmit(request')]_vars

\* C2: a step taken while the draft's priority is unset, or while one of
\* its conditions has the empty value, sends no POST and no PUT.
C2_IncompleteNotSubmitted ==
    [][(\/ formData.priority = Empty
        \/ \E j \in 1..Len(formData.conditions) : formData.conditions[j].value = "")
           => ~IsSubmit(request')]_vars

\* C3: when a draft whose priority and status are options of the selects is
\* submitted, the body has the priority and the status in display form and
\* the name, description, matchLogic and conditions of the draft.
C3_PayloadNormalized ==
    [][(/\ IsSubmit(request')
        /\ formData.priority \in PriorityOptions
        /\ formData.status \in StatusOptions)
           => /\ request'.body.priority = DisplayForm(formData.priority)
              /\ request'.body.status = DisplayForm(formData.status)
              /\ request'.body.name = formData.name
              /\ request'.body.description = formData.description
              /\ request'.body.matchLogic = formData.matchLogic
              /\ request'.body.conditions = formData.conditions]_vars

\* C3 witness: an update was sent for a draft with priority medium, status
\* active and two conditions, and its body says Medium and Active.
C3_Witness ==
    /\ request.method = "PUT"
    /\ formData.priority = medium
    /\ formData.status = active
    /\ request.body.priority = Medium
    /\ request.body.status = Active
    /\ Len(request.body.conditions) = 2

\* C4: every body sent with POST or PUT has a priority among High, Medium,
\* Low and a status among Active, Inactive.
C4_DisplayFormAtApi ==
    IsSubmit(request) =>
        /\ request.body.priority \in {High, Medium, Low}
        /\ request.body.status \in {Active, Inactive}

\* C5: no body sent with POST or PUT has an empty conditions list.
C5_NoEmptyConditionsSent ==
    IsSubmit(request) => request.body.conditions # << >>

\* C6: updateCondition with an index that is no position of the conditions
\* list leaves the list as it was, and every condition keeps its field,
\* operator and value.
C6_UpdateOutOfRangeRejected ==
    [][\A index \in IndexInputs \ RowIndices, a \in AttrInputs :
          updateCondition(index, a[1], a[2])
             => /\ formData'.conditions = formData.conditions
                /\ \A j \in 1..Len(formData'.conditions) :
                      DOMAIN formData'.conditions[j] = ConditionKeys]_vars

\* C7: updateCondition at a position of the list sets the named attribute
\* of that condition and changes nothing else: not the other attributes of
\* the condition, not another condition, not the length, not the rest of
\* the draft, not the selection.
C7_UpdateChangesOnlyTarget ==
    [][\A index \in RowIndices, a \in AttrInputs :
          updateCondition(index, a[1], a[2])
             => /\ Len(formData'.conditions) = Len(formData.conditions)
                /\ \A j \in 1..Len(formData.conditions) :
                      j # index + 1 => formData'.conditions[j] = formData.conditions[j]
                /\ DOMAIN formData'.conditions[index + 1] = ConditionKeys
                /\ formData'.conditions[index + 1][a[1]] = a[2]
                /\ \A k \in ConditionKeys \ {a[1]} :
                      formData'.conditions[index + 1][k] = formData.conditions[index + 1][k]
                /\ RestUnchanged]_vars

\* C7 witness: the default conditions with the operator of the first one
\* changed from greater_than to outside.
C7_Witness ==
    formData.conditions =
        << [field |-> "amount", operator |-> "outside", value |-> "10000"],
           [field |-> "time", operator |-> "outside", value |-> "9:00-17:00"] >>

\* C8: addCondition can be taken on every draft the bound leaves room in,
\* and it makes the list one longer, with amount / greater_than / "" as the
\* new last element and the earlier elements where they were.
C8_AddAppendsDefault ==
    /\ [](Len(formData.conditions) < MaxConds => ENABLED addCondition)
    /\ [][addCondition
             => /\ Len(formData'.conditions) = Len(formData.conditions) + 1
                /\ formData'.conditions[Len(formData'.conditions)] =
                      [field |-> "amount", operator |-> "greater_than", value |-> ""]
                /\ \A j \in 1..Len(formData.conditions) :
                      formData'.conditions[j] = formData.conditions[j]
                /\ RestUnchanged]_vars

\* C8 witness: a condition was added after one whose value had been typed.
C8_Witness ==
    formData.conditions =
        << [field |-> "time", operator |-> "greater_than", value |-> "10000"],
           [field |-> "amount", operator |-> "greater_than", value |-> ""] >>

C10_RemoveOutOfRangeNoOp ==
    [][\A index \in IndexInputs \ RowIndices :
          removeCondition(index)
             => /\ formData' = formData
                /\ selectedRule' = selectedRule]_vars

\* C11: handling a failed answer (response.ok false, or the fetch rejected)
\* to a PUT or a POST leaves the draft and the selection as they were and
\* does not invalidate the 'rules' query.
C11_FailedSubmitKeepsDraft ==
    [][((\E id \in RuleIds : UpdateResponse(id, FALSE)) \/ CreateResponse(FALSE))
          => /\ formData' = formData
             /\ selectedRule' = selectedRule
             /\ extraProps' = extraProps
             /\ invalidated' = FALSE]_vars

\* C11 witness: a PUT of an edited draft is waiting for its answer.
C11_Witness ==
    /\ BagIn(Fetch("PUT", "R001"), pending)
    /\ selectedRule = "R001"
    /\ formData.name = "A"
    /\ Len(formData.conditions) = 2

\* C12: after a login or signup submission the loading flag returns to
\* false, which enables the submit button again, whatever the outcome of
\* the call.
C12_LoadingReturnsToFalse ==
    /\ loading["login"] ~> ~loading["login"]
    /\ loading["signup"] ~> ~loading["signup"]

\* C13: every PUT /api/rules/{id} carries a draft that was loaded from
\* GET /api/rules/{id} for that id after the rule was selected.
C13_UpdateSendsLoadedDraft ==
    request.method = "PUT" => loadedRule = request.id

\* The six fields of a rule.
RuleFields == {"name", "description", "priority", "status", "conditions", "matchLogic"}

\* C14: pressing the submit button sends exactly one request, POST
\* /api/rules when no rule is selected and PUT /api/rules/{selectedRule}
\* otherwise, and its body has all six rule fields, each taken from the
\* draft in the editor.
C14_SubmitFullReplacement ==
    [][Submit
          => /\ request'.method = (IF selectedRule = Null THEN "POST" ELSE "PUT")
             /\ request'.id = selectedRule
             /\ pending' = pending (+) SetToBag({Fetch(request'.method, selectedRule)})
             /\ BagCardinality(pending') = BagCardinality(pending) + 1
             /\ DOMAIN request'.body = RuleFields
             /\ request'.body.name = formData.name
             /\ request'.body.description = formData.description
             /\ ToLowerCase(request'.body.priority) = formData.priority
             /\ ToLowerCase(request'.body.status) = formData.status
             /\ request'.body.conditions = formData.conditions
             /\ request'.body.matchLogic = formData.matchLogic]_vars

\* C14 witness: a POST with no rule selected carrying an edited draft.
C14_Witness ==
    /\ request.method = "POST"
    /\ selectedRule = Null
    /\ request.body.name = "A"
    /\ request.body.description = "d"
    /\ Len(request.body.conditions) = 2
    /\ request.body.matchLogic = "any"

\* C15: no POST or PUT body has an id field, and selectedRule is null or
\* the id of a listed rule.
C15_ClientAssignsNoIdentity ==
    /\ IsSubmit(request) => "id" \notin DOMAIN request.body
    /\ selectedRule \in {Null} \cup ListedRuleIds

\* C15 witness: a PUT for the selected rule R001 was sent.
C15_Witness ==
    /\ request.method = "PUT"
    /\ request.id = "R001"
    /\ selectedRule = "R001"
    /\ request.body.status = Active

\* C16: once a fetch of a widget's query has succeeded, the widget shows
\* the last successful value while any later refetch is in flight: not
\* the skeleton and not the error view.
C16_LastValueVisibleDuringRefetch ==
    \A w \in Widgets :
        (queryResult[w].data # NoData /\ isFetching(queryResult[w]))
            => /\ View(w) = "data"
               /\ WidgetData(w) = queryResult[w].data

\* C17: in every draft the editor reaches, each condition's field is one
\* of amount, channel, paymentMode, location, time, its operator one of
\* greater_than, less_than, equal_to, contains, outside, within, and
\* matchLogic is all or any.
C17_DraftEnumerationsValid ==
    /\ \A i \in 1..Len(formData.conditions) :
          /\ DOMAIN formData.conditions[i] = ConditionKeys
          /\ formData.conditions[i].field \in FieldOptions
          /\ formData.conditions[i].operator \in OperatorOptions
    /\ formData.matchLogic \in MatchLogicOptions

\* C17 witness: a condition was added and its selects were changed, and
\* matchLogic was set to any.
C17_Witness ==
    /\ formData.matchLogic = "any"
    /\ Len(formData.conditions) = 2
    /\ formData.conditions[2] = [field |-> "time", operator |-> "outside", value |-> ""]

\* C18: addCondition, updateCondition and removeCondition change nothing
\* but formData.conditions: the draft's other five fields and
\* selectedRule stay as they are, no request is issued, no call is
\* started or dropped and no query is invalidated.
C18_ConditionOpsOnlyConditions ==
    [][(\/ addCondition
        \/ \E index \in RowIndices : removeCondition(index)
        \/ \E index \in RowIndices, a \in AttrInputs : updateCondition(index, a[1], a[2]))
          => /\ RestUnchanged
             /\ DOMAIN formData' = DOMAIN formData
             /\ request' = NoRequest
             /\ pending' = pending
             /\ invalidated' = FALSE]_vars

\* C18 witness: a condition was added to the draft named A while rule
\* R001 is selected and no call is in flight.
C18_Witness ==
    /\ selectedRule = "R001"
    /\ formData.name = "A"
    /\ formData.priority = high
    /\ formData.conditions = << NewCondition >>
    /\ pending = EmptyBag
    /\ request = NoRequest

\* The draft of a new rule as the claim C19 spells it out.
NewRuleDraft ==
    [name |-> "", description |-> "", priority |-> << >>, status |-> inactive,
     conditions |-> << [field |-> "amount", operator |-> "greater_than", value |-> "10000"],
                       [field |-> "time", operator |-> "outside", value |-> "9:00-17:00"] >>,
     matchLogic |-> "all"]

\* C19 as stated: after Reset with no rule selected and after the handling
\* of a 2xx answer to POST /api/rules the draft is the empty form with the
\* two default conditions and selectedRule is null.
C19_NewDraftAndNoSelection ==
    [][(ResetEmpty \/ CreateResponse(TRUE))
          => /\ formData' = NewRuleDraft
             /\ selectedRule' = Null]_vars

\* C19 amended: after Reset with no rule selected and after the handling
\* of a 2xx answer to POST /api/rules the draft is the empty form with the
\* two default conditions, and selectedRule is what it was before the
\* step: null for Reset, null or the rule selected meanwhile for the POST.
C19_NewDraftSelectionKept ==
    [][(ResetEmpty \/ CreateResponse(TRUE))
          => /\ formData' = NewRuleDraft
             /\ selectedRule' = selectedRule
             /\ ResetEmpty => selectedRule' = Null]_vars

\* C19 witness: the 2xx answer to a POST was just handled with no rule
\* selected.
C19_Witness ==
    /\ invalidated
    /\ selectedRule = Null
    /\ formData = NewRuleDraft
    /\ pending = EmptyBag

\* C20: the response of a Reset fetch GET /api/rules/{id} is applied to
\* the draft only while id is the selected rule.
C20_ResetResponseForSelectedRule ==
    [][\A id \in RuleIds, doc \in ServerDocs :
          ResetLoaded(id, doc) => id = selectedRule]_vars

\* C21: for a draft whose priority, status and matchLogic are options of
\* their selects, the Reset mapping applied to the submit payload built
\* from the draft gives the draft back, also when the draft has no
\* conditions.
C21_ResetInvertsSubmit ==
    (/\ formData.priority \in PriorityOptions
     /\ formData.status \in StatusOptions
     /\ formData.matchLogic \in MatchLogicOptions)
        => FromRuleData(ruleData(formData)) = formData

\* C21 witness: a draft with a name, priority high, status active and no
\* conditions, whose payload carries High and Active.
C21_Witness ==
    /\ formData.name = "A"
    /\ formData.priority = high
    /\ formData.status = active
    /\ formData.matchLogic = "any"
    /\ formData.conditions = << >>
    /\ ruleData(formData).priority = High
    /\ FromRuleData(ruleData(formData)) = formData

\* C22: handling a 2xx answer to PUT /api/rules/{id} sets selectedRule to
\* null, invalidates the 'rules' query and leaves formData as it is; a
\* submit that follows directly is a POST /api/rules whose body is built
\* from that same draft.
C22_UpdateSuccessKeepsDraft ==
    /\ [][\A id \in RuleIds :
             UpdateResponse(id, TRUE)
                => /\ selectedRule' = Null
                   /\ invalidated' = TRUE
                   /\ formData' = formData
                   /\ extraProps' = extraProps]_vars
    /\ [][(invalidated /\ selectedRule = Null /\ Submit)
             => /\ request'.method = "POST"
                /\ request'.body = ruleData(formData)
                /\ formData' = formData]_vars

\* C22 witness: the 2xx answer to the PUT of the draft named A was just
\* handled: nothing is selected and the editor still holds the draft.
C22_Witness ==
    /\ invalidated
    /\ selectedRule = Null
    /\ pending = EmptyBag
    /\ formData.name = "A"
    /\ formData.priority = high
    /\ Len(formData.conditions) = 1

\* C23: Edit on rule r sets selectedRule to r and Cancel sets it to null;
\* both leave formData as it is, send no request, start or drop no call
\* and invalidate no query.
C23_EditCancelOnlySelection ==
    /\ [][\A id \in RuleIds :
             Edit(id)
                => /\ selectedRule' = id
                   /\ formData' = formData
                   /\ extraProps' = extraProps
                   /\ request' = NoRequest
                   /\ pending' = pending
                   /\ invalidated' = FALSE]_vars
    /\ [][Cancel
             => /\ selectedRule' = Null
                /\ formData' = formData
                /\ extraProps' = extraProps
                /\ request' = NoRequest
                /\ pending' = pending
                /\ invalidated' = FALSE]_vars

\* C23 witness: Edit on R001 was pressed with an edited draft in the
\* editor; the draft is still there and no call is in flight.
C23_Witness ==
    /\ selectedRule = "R001"
    /\ formData.name = "A"
    /\ formData.description = "d"
    /\ formData.status = active
    /\ formData.conditions = << >>
    /\ pending = EmptyBag
    /\ request = NoRequest

\* C24: while a login POST is waiting for its answer loading is true, and
\* a login submit starts only when no login POST is waiting; the route
\* changes only in the step that handles an ok response, to /dashboard,
\* and the step that handles a response that is not ok leaves the route.
C24_LoginOneInFlight ==
    /\ [](authFetch["login"] # NoFetch => loading["login"])
    /\ [][\A email \in EmailInputs, password \in PasswordInputs :
             LoginSubmit(email, password) => authFetch["login"] = NoFetch]_vars
    /\ [][route' # route => (LoginResolved(TRUE) /\ route' = "/dashboard")]_vars
    /\ [][LoginResolved(FALSE) => route' = route]_vars

\* C24 witness: after a failed login a second POST is waiting for its
\* answer, the button is disabled and the login page is still shown.
C24_Witness ==
    /\ authFetch["login"] # NoFetch
    /\ authFetch["login"].body = LoginBody("b@fdam.io", "qw")
    /\ loading["login"]
    /\ alerted["login"] = "Login failed"
    /\ route = "/"

\* C25: started on a page of a list with at least one page, the
\* pagination keeps 1 <= currentPage <= totalPages through every sequence
\* of presses, hands only such pages to onPageChange, and Previous cannot
\* be pressed on page 1 nor Next on the last page.
C25_PaginationInRange ==
    /\ 1 <= currentPage /\ currentPage <= totalPages
    /\ \A page \in onPageChange : 1 <= page /\ page <= totalPages
    /\ currentPage = 1 => ~ENABLED PreviousPage
    /\ currentPage = totalPages => ~ENABLED NextPage

\* C25 witness: Next was pressed on page 2 of 3 and the last page is shown.
C25_Witness ==
    /\ totalPages = 3
    /\ currentPage = 3
    /\ onPageChange = {3}

\* C26: a press of Next never hands onPageChange a page greater than
\* totalPages: Next is disabled when the list is empty (totalPages = 0)
\* or the page shown is past the last one.
C26_NextNeverPastLast ==
    [][NextPage => \A page \in onPageChange' : page <= totalPages]_vars

\* C27: a widget whose query is in error state shows the error view, whose
\* Retry button can be pressed; a press of Retry starts a fetch; when a
\* fetch succeeds the widget shows the data just fetched; the skeleton is
\* shown only while the query is loading and the widget never received
\* data.
C27_RetryRecovers ==
    /\ [](\A w \in Widgets :
             isError(queryResult[w]) => (View(w) = "error" /\ ENABLED Retry(w)))
    /\ [](\A w \in Widgets :
             View(w) = "skeleton"
                => /\ isLoading(queryResult[w])
                   /\ queryResult[w].data = NoData
                   /\ prevDataRef[w] = NoData)
    /\ [][\A w \in Widgets : Retry(w) => isFetching(queryResult'[w])]_vars
    /\ [][\A w \in Widgets, d \in DataValues :
             FetchSucceeded(w, d)
                => /\ View(w)' = "data"
                   /\ WidgetData(w)' = d
                   /\ ~isError(queryResult'[w])]_vars

\* C27 witness: the summary widget failed a refetch after a success and
\* Retry was pressed: the fetch is running in error state.
C27_Witness ==
    queryResult["dashboardSummary"] = [status |-> "error", fetchStatus |-> "fetching", data |-> "d1"]

\* C28: an edit of a date, the search text, the payer or the payee leaves
\* the parent's filters as they are; Apply Filters makes the parent's
\* filters equal to localFilters and leaves localFilters; Clear Filters
\* sets both to one cleared value with payerId = payeeId = "all" and
\* searchQuery = "".
C28_FiltersOnDemand ==
    /\ [][FilterEdit => filters' = filters]_vars
    /\ [][applyFilters => (filters' = localFilters /\ localFilters' = localFilters)]_vars
    /\ [][(\E now \in ClearDates : clearFilters(now))
             => /\ filters' = localFilters'
                /\ filters'.payerId = "all"
                /\ filters'.payeeId = "all"
                /\ filters'.searchQuery = ""]_vars

\* C28 witness: edited filters were applied: the parent holds the payer,
\* the search text and the emptied start date the component holds.
C28_Witness ==
    /\ filters = localFilters
    /\ filters.payerId = "P1234"
    /\ filters.searchQuery = "T1"
    /\ filters.startDate = Undefined

====
